---- MODULE Spec2Model ----
(***************************************************************************)
(* The two CSV analysis scripts analyze_csv.py (strict, variant "old") and *)
(* analyze_csv_new.py (defensive, variant "new"): the read pass over the   *)
(* rows of the file, the statistics and the report sections.               *)
(*                                                                         *)
(* Spreads are kept in hundredths of a percent (0.17 is 17, 999 is 99900), *)
(* so every comparison of the scripts is an integer comparison.            *)
(* A text field of a row is a record [kind, val]: kind "num" for a text    *)
(* the conversion accepts (val is its value), "empty" for the empty text   *)
(* and "bad" for a text the conversion rejects.                            *)
(***************************************************************************)
EXTENDS Integers, Sequences, FiniteSets, TLC

VARIABLES
    variant,            \* "old" = analyze_csv.py, "new" = analyze_csv_new.py
    pc,                 \* position of the script
    consumed,           \* the data rows the reader has produced so far
    spreads, eth_prices, gas_prices, opportunities, total_scans,
    reject_reasons, pair_spreads, max_spread_entry, max_spread,
    time_spreads, high_spread_cases,
    max_spread_val, min_spread_val, median_spread,
    counts, sorted_time_spreads,
    printed,            \* number of report sections whose output has begun
    exc,                \* the exception that ended the run, "" when none
    pat                 \* the input pattern of the top-K specification

vars == <<variant, pc, consumed, spreads, eth_prices, gas_prices, opportunities,
          total_scans, reject_reasons, pair_spreads, max_spread_entry, max_spread,
          time_spreads, high_spread_cases, max_spread_val, min_spread_val,
          median_spread, counts, sorted_time_spreads, printed, exc, pat>>

aggregates == <<spreads, eth_prices, gas_prices, opportunities, reject_reasons,
                pair_spreads, max_spread_entry, max_spread, time_spreads,
                high_spread_cases>>

results == <<max_spread_val, min_spread_val, median_spread, counts,
             sorted_time_spreads, printed>>

(***************************************************************************)
(* Bounds of the model.                                                    *)
(***************************************************************************)
MaxRows == 3        \* data rows of the file
MaxTopLen == 22     \* records of the top-K specification

(***************************************************************************)
(* Constants of the scripts.                                               *)
(***************************************************************************)
MinFields == 29
MinSpreadPercent == 17
TopKOld == 10
TopKNew == 20

(***************************************************************************)
(* Rows.                                                                   *)
(***************************************************************************)
Num(v) == [kind |-> "num", val |-> v]
Empty == [kind |-> "empty", val |-> 0]
Bad == [kind |-> "bad", val |-> 0]

Whitespace == {" ", "\t"}

Ts(t, iso) == [t |-> t, iso |-> iso]

Row(ts, pair, spread, hasOpp, reason) ==
    [nfields |-> MinFields, ts |-> ts, scanNum |-> Num(1), pair |-> pair,
     spread |-> spread, hasOpp |-> hasOpp, reason |-> reason,
     buyPx |-> Num(3000), sellPx |-> Num(3000), eth |-> Num(3000), gas |-> Num(2)]

Rows ==
    { Row(Ts(1, TRUE), "A", Num(0 - 5), Num(0), <<>>),
      Row(Ts(2, TRUE), "A", Num(0), Num(0), <<" ", "\t">>),
      Row(Ts(3, TRUE), "B", Num(10), Num(0), <<"a">>),
      Row(Ts(4, TRUE), "A", Num(17), Num(0), <<" ", "a", " ">>),
      Row(Ts(5, TRUE), "B", Num(17), Num(2), <<>>),
      Row(Ts(6, TRUE), "A", Num(50), Num(1), <<>>),
      Row(Ts(7, FALSE), "B", Num(50), Num(0), <<"b">>),
      Row(Ts(8, TRUE), "A", Num(99900), Num(0), <<"a", " ", "b">>),
      Row(Ts(9, TRUE), "A", Bad, Num(1), <<"a">>),
      Row(Ts(10, TRUE), "B", Empty, Num(0), <<>>),
      [Row(Ts(11, TRUE), "A", Num(50), Num(1), <<"a">>) EXCEPT !.eth = Bad],
      [Row(Ts(12, TRUE), "A", Num(50), Num(1), <<"a">>) EXCEPT !.nfields = MinFields - 1],
      [Row(Ts(13, TRUE), "B", Num(20), Num(0), <<>>) EXCEPT !.scanNum = Bad, !.buyPx = Bad],
      [Row(Ts(14, TRUE), "B", Num(30), Empty, <<"b">>) EXCEPT !.eth = Empty] }

(***************************************************************************)
(* Conversions of the read loops.                                          *)
(***************************************************************************)
RECURSIVE LStrip(_)
LStrip(s) == IF s # <<>> /\ Head(s) \in Whitespace THEN LStrip(Tail(s)) ELSE s

RECURSIVE RStrip(_)
RStrip(s) ==
    IF s # <<>> /\ s[Len(s)] \in Whitespace THEN RStrip(SubSeq(s, 1, Len(s) - 1)) ELSE s

Strip(s) == RStrip(LStrip(s))

RawReason(field) == field

\* row[5].strip() if row[5] else ''
CleanReason(field) == IF field # <<>> THEN Strip(field) ELSE <<>>

\* float(x) / int(x): raises ValueError unless the text is a number
Raises(field) == field.kind # "num"

\* float(x) if x else 0.0 / int(x) if x else 0: the empty text is defaulted
RaisesGuarded(field) == field.kind = "bad"

Value(field) == IF field.kind = "num" THEN field.val ELSE 0

FailLineOldDefaulted(row) ==
    IF RaisesGuarded(row.spread) THEN 29
    ELSE IF RaisesGuarded(row.hasOpp) THEN 30
    ELSE IF RaisesGuarded(row.eth) THEN 32
    ELSE 0

\* analyze_csv.py: the line of the loop body that raises on this row, 0 if none
FailLineOld(row) ==
    IF Raises(row.spread) THEN 29
    ELSE IF Raises(row.hasOpp) THEN 30
    ELSE IF Raises(row.eth) THEN 32
    ELSE 0

FailLineNewInline(row) ==
    IF RaisesGuarded(row.scanNum) THEN 35
    ELSE IF RaisesGuarded(row.spread) THEN 37
    ELSE IF RaisesGuarded(row.hasOpp) THEN 38
    ELSE IF RaisesGuarded(row.eth) THEN 44
    ELSE IF RaisesGuarded(row.gas) THEN 45
    ELSE 0

\* analyze_csv_new.py: the line of the try body that raises on this row, 0 if none
FailLineNew(row) ==
    IF RaisesGuarded(row.scanNum) THEN 35
    ELSE IF RaisesGuarded(row.spread) THEN 37
    ELSE IF RaisesGuarded(row.hasOpp) THEN 38
    ELSE IF RaisesGuarded(row.eth) THEN 40
    ELSE IF RaisesGuarded(row.gas) THEN 41
    ELSE 0

\* a statement of the loop body runs iff no earlier statement has raised
Runs(line, fail) == fail = 0 \/ line < fail

IsAnomalyStrict(spread, has_opp) == spread > MinSpreadPercent /\ has_opp = 0

\* spread >= 0.17 and has_opp == 0
IsAnomaly(spread, has_opp) == spread >= MinSpreadPercent /\ has_opp = 0

\* defaultdict(list)[key].append(v)
AppendTo(d, key, v) ==
    IF key \in DOMAIN d THEN [d EXCEPT ![key] = Append(@, v)] ELSE d @@ (key :> <<v>>)

\* defaultdict(int)[key] += 1
Increment(d, key) ==
    IF key \in DOMAIN d THEN [d EXCEPT ![key] = @ + 1] ELSE d @@ (key :> 1)

(***************************************************************************)
(* Statistics and report helpers.                                          *)
(***************************************************************************)
Range(s) == {s[i] : i \in DOMAIN s}

MaxOf(s) == CHOOSE x \in Range(s) : \A y \in Range(s) : y <= x

MinOf(s) == CHOOSE x \in Range(s) : \A y \in Range(s) : x <= y

RECURSIVE InsertAsc(_, _)
InsertAsc(x, s) ==
    IF s = <<>> THEN <<x>>
    ELSE IF s[Len(s)] <= x THEN Append(s, x)
    ELSE Append(InsertAsc(x, SubSeq(s, 1, Len(s) - 1)), s[Len(s)])

\* sorted(spreads)
RECURSIVE SortAsc(_)
SortAsc(s) ==
    IF s = <<>> THEN <<>>
    ELSE InsertAsc(s[Len(s)], SortAsc(SubSeq(s, 1, Len(s) - 1)))

MedianLower(s) == SortAsc(s)[((Len(s) - 1) \div 2) + 1]

\* sorted_spreads[len(sorted_spreads)//2], indices from 0
Median(s) == SortAsc(s)[(Len(s) \div 2) + 1]

RECURSIVE InsertDescFirst(_, _)
InsertDescFirst(x, s) ==
    IF s = <<>> THEN <<x>>
    ELSE IF s[Len(s)].spread > x.spread THEN Append(s, x)
    ELSE Append(InsertDescFirst(x, SubSeq(s, 1, Len(s) - 1)), s[Len(s)])

\* the place of x, the latest record in input order, in the sorted records
\* before it: behind every record whose spread is not smaller (stable sort)
RECURSIVE InsertDesc(_, _)
InsertDesc(x, s) ==
    IF s = <<>> THEN <<x>>
    ELSE IF s[Len(s)].spread >= x.spread THEN Append(s, x)
    ELSE Append(InsertDesc(x, SubSeq(s, 1, Len(s) - 1)), s[Len(s)])

\* sorted(time_spreads, key=lambda x: x[1], reverse=True)
RECURSIVE SortDesc(_)
SortDesc(s) ==
    IF s = <<>> THEN <<>>
    ELSE InsertDesc(s[Len(s)], SortDesc(SubSeq(s, 1, Len(s) - 1)))

\* sorted(...)[:K]
TopSpreads(s, K) == SubSeq(SortDesc(s), 1, IF Len(s) < K THEN Len(s) ELSE K)

Range3(label, low, high) == [label |-> label, low |-> low, high |-> high]

SpreadRangesOld ==
    << Range3("< 0.1%", 0, 10), Range3("0.1~0.2%", 10, 20), Range3("0.2~0.3%", 20, 30),
       Range3("0.3~0.4%", 30, 40), Range3("0.4~0.5%", 40, 50),
       Range3(">= 0.5%", 50, 99900) >>

SpreadRangesNew ==
    << Range3("< 0.1%", 0, 10), Range3("0.1~0.17%", 10, 17), Range3("0.17~0.2%", 17, 20),
       Range3("0.2~0.3%", 20, 30), Range3("0.3~0.4%", 30, 40),
       Range3("0.4~0.5%", 40, 50), Range3(">= 0.5%", 50, 99900) >>

spread_ranges == IF variant = "old" THEN SpreadRangesOld ELSE SpreadRangesNew

InRangeClosed(s, r) == r.low <= s /\ s <= r.high

\* low <= s < high
InRange(s, r) == r.low <= s /\ s < r.high

\* the inner loop: the first range in list order that holds s, 0 if none does
FirstMatch(s, ranges) ==
    IF \E k \in DOMAIN ranges : InRange(s, ranges[k])
    THEN CHOOSE k \in DOMAIN ranges :
            /\ InRange(s, ranges[k])
            /\ \A j \in 1..(k - 1) : ~InRange(s, ranges[j])
    ELSE 0

\* for s in spreads: ... counts[label] += 1; break
RECURSIVE Tally(_, _, _)
Tally(ss, ranges, c) ==
    IF ss = <<>> THEN c
    ELSE LET k == FirstMatch(Head(ss), ranges)
         IN Tally(Tail(ss), ranges, IF k = 0 THEN c ELSE [c EXCEPT ![ranges[k].label] = @ + 1])

\* counts = {label: 0 for label, _, _ in spread_ranges}, then the tally
Counts(ss, ranges) ==
    Tally(ss, ranges, [l \in {ranges[k].label : k \in DOMAIN ranges} |-> 0])

(***************************************************************************)
(* The script: initial state, read pass, statistics, report.               *)
(***************************************************************************)
NoPattern == [a |-> 0, b |-> 0, m |-> 1]

\* the module-level assignments in front of the read loop
Fresh ==
    /\ consumed = <<>>
    /\ spreads = <<>>
    /\ eth_prices = <<>>
    /\ gas_prices = <<>>
    /\ opportunities = 0
    /\ total_scans = 0
    /\ reject_reasons = <<>>
    /\ pair_spreads = <<>>
    /\ max_spread_entry = <<>>
    /\ max_spread = 0
    /\ time_spreads = <<>>
    /\ high_spread_cases = <<>>
    /\ max_spread_val = 0
    /\ min_spread_val = 0
    /\ median_spread = 0
    /\ counts = <<>>
    /\ sorted_time_spreads = <<>>
    /\ printed = 0
    /\ exc = ""

Init ==
    /\ variant \in {"old", "new"}
    /\ pc = IF variant = "new" THEN "header" ELSE "reading"
    /\ pat = NoPattern
    /\ Fresh

\* header = next(reader) on a file that has a first line
SkipHeader ==
    /\ variant = "new"
    /\ pc = "header"
    /\ pc' = "reading"
    /\ UNCHANGED <<variant, consumed, aggregates, total_scans, results, exc, pat>>

\* header = next(reader) on a file of zero lines: StopIteration leaves the script
HeaderMissing ==
    /\ variant = "new"
    /\ pc = "header"
    /\ pc' = "error"
    /\ exc' = "StopIteration"
    /\ UNCHANGED <<variant, consumed, aggregates, total_scans, results, pat>>

TupleOld(timestamp, spread, pair, reject_reason, eth_price) ==
    [timestamp |-> timestamp, spread |-> spread, pair |-> pair,
     reject_reason |-> reject_reason, eth_price |-> eth_price]

TupleNew(timestamp, spread, pair, reject_reason, eth_price, gas_gwei, has_opp) ==
    [timestamp |-> timestamp, spread |-> spread, pair |-> pair,
     reject_reason |-> reject_reason, eth_price |-> eth_price,
     gas_gwei |-> gas_gwei, has_opp |-> has_opp]

Case(timestamp, pair, spread, reject_reason, eth_price, gas_gwei) ==
    [timestamp |-> timestamp, pair |-> pair, spread |-> spread,
     reject_reason |-> reject_reason, eth_price |-> eth_price, gas_gwei |-> gas_gwei]

\* analyze_csv.py: one turn of the read loop
ReadRowOld(row) ==
    /\ variant = "old"
    /\ pc = "reading"
    /\ Len(consumed) < MaxRows
    /\ consumed' = Append(consumed, row)
    /\ IF row.nfields < MinFields
       THEN UNCHANGED <<pc, exc, total_scans, aggregates>>
       ELSE LET fail == FailLineOld(row)
                timestamp == row.ts
                pair == row.pair
                spread == Value(row.spread)
                has_opp == Value(row.hasOpp)
                reject_reason == CleanReason(row.reason)
                eth_price == Value(row.eth)
            IN  /\ total_scans' = total_scans + 1
                /\ pc' = IF fail = 0 THEN "reading" ELSE "error"
                /\ exc' = IF fail = 0 THEN exc ELSE "ValueError"
                /\ spreads' = IF Runs(34, fail) THEN Append(spreads, spread) ELSE spreads
                /\ eth_prices' =
                      IF Runs(35, fail) THEN Append(eth_prices, eth_price) ELSE eth_prices
                /\ pair_spreads' =
                      IF Runs(36, fail) THEN AppendTo(pair_spreads, pair, spread)
                      ELSE pair_spreads
                /\ time_spreads' =
                      IF Runs(37, fail)
                      THEN Append(time_spreads,
                                  TupleOld(timestamp, spread, pair, reject_reason, eth_price))
                      ELSE time_spreads
                /\ opportunities' =
                      IF Runs(39, fail) /\ has_opp = 1 THEN opportunities + 1
                      ELSE opportunities
                /\ reject_reasons' =
                      IF Runs(42, fail) /\ reject_reason # <<>>
                      THEN Increment(reject_reasons, reject_reason)
                      ELSE reject_reasons
                /\ max_spread' =
                      IF Runs(45, fail) /\ spread > max_spread THEN spread ELSE max_spread
                /\ max_spread_entry' =
                      IF Runs(45, fail) /\ spread > max_spread THEN <<row>>
                      ELSE max_spread_entry
                /\ UNCHANGED <<gas_prices, high_spread_cases>>
    /\ UNCHANGED <<variant, results, pat>>

\* analyze_csv_new.py: one turn of the read loop
ReadRowNew(row) ==
    /\ variant = "new"
    /\ pc = "reading"
    /\ Len(consumed) < MaxRows
    /\ consumed' = Append(consumed, row)
    /\ IF row.nfields < MinFields
       THEN UNCHANGED <<total_scans, aggregates>>
       ELSE LET fail == FailLineNew(row)
                timestamp == row.ts
                pair == row.pair
                spread == Value(row.spread)
                has_opp == Value(row.hasOpp)
                reject_reason == CleanReason(row.reason)
                eth_price == Value(row.eth)
                gas_gwei == Value(row.gas)
            IN  /\ total_scans' = total_scans + 1
                /\ spreads' = IF Runs(43, fail) THEN Append(spreads, spread) ELSE spreads
                /\ eth_prices' =
                      IF Runs(44, fail) THEN Append(eth_prices, eth_price) ELSE eth_prices
                /\ gas_prices' =
                      IF Runs(45, fail) THEN Append(gas_prices, gas_gwei) ELSE gas_prices
                /\ pair_spreads' =
                      IF Runs(46, fail) THEN AppendTo(pair_spreads, pair, spread)
                      ELSE pair_spreads
                /\ time_spreads' =
                      IF Runs(47, fail)
                      THEN Append(time_spreads,
                                  TupleNew(timestamp, spread, pair, reject_reason,
                                           eth_price, gas_gwei, has_opp))
                      ELSE time_spreads
                /\ opportunities' =
                      IF Runs(49, fail) /\ has_opp = 1 THEN opportunities + 1
                      ELSE opportunities
                /\ reject_reasons' =
                      IF Runs(52, fail) /\ reject_reason # <<>>
                      THEN Increment(reject_reasons, reject_reason)
                      ELSE reject_reasons
                /\ high_spread_cases' =
                      IF Runs(56, fail) /\ IsAnomaly(spread, has_opp)
                      THEN Append(high_spread_cases,
                                  Case(timestamp, pair, spread, reject_reason,
                                       eth_price, gas_gwei))
                      ELSE high_spread_cases
                /\ max_spread' =
                      IF Runs(66, fail) /\ spread > max_spread THEN spread ELSE max_spread
                /\ max_spread_entry' =
                      IF Runs(66, fail) /\ spread > max_spread THEN <<row>>
                      ELSE max_spread_entry
    /\ UNCHANGED <<variant, pc, exc, results, pat>>

\* the reader has no further row: the with block is left
EndOfFile ==
    /\ pc = "reading"
    /\ pc' = "stats"
    /\ UNCHANGED <<variant, consumed, aggregates, total_scans, results, exc, pat>>

\* analyze_csv.py: the unguarded statistics
StatisticsOld ==
    /\ variant = "old"
    /\ pc = "stats"
    /\ IF spreads = <<>>
       THEN /\ pc' = "error"
            /\ exc' = "ZeroDivisionError"
            /\ UNCHANGED <<max_spread_val, min_spread_val, median_spread>>
       ELSE /\ pc' = "report"
            /\ max_spread_val' = MaxOf(spreads)
            /\ min_spread_val' = MinOf(spreads)
            /\ median_spread' = Median(spreads)
            /\ UNCHANGED exc
    /\ UNCHANGED <<variant, consumed, aggregates, total_scans, counts,
                   sorted_time_spreads, printed, pat>>

\* analyze_csv_new.py: the statistics, 0 over an empty list
StatisticsNew ==
    /\ variant = "new"
    /\ pc = "stats"
    /\ pc' = "report"
    /\ max_spread_val' = IF spreads # <<>> THEN MaxOf(spreads) ELSE 0
    /\ min_spread_val' = IF spreads # <<>> THEN MinOf(spreads) ELSE 0
    /\ median_spread' = IF spreads # <<>> THEN Median(spreads) ELSE 0
    /\ UNCHANGED <<variant, consumed, aggregates, total_scans, counts,
                   sorted_time_spreads, printed, exc, pat>>

\* analyze_csv.py: the report section that raises, 0 if none
\* (3: float(max_spread_entry[19]), float(max_spread_entry[21]);
\*  8: ts.split('T')[1] on a timestamp without T)
FailSectionOld ==
    IF max_spread_entry # <<>>
       /\ (Raises(max_spread_entry[1].buyPx) \/ Raises(max_spread_entry[1].sellPx))
    THEN 3
    ELSE IF \E i \in DOMAIN TopSpreads(time_spreads, TopKOld) :
               ~TopSpreads(time_spreads, TopKOld)[i].timestamp.iso
    THEN 8
    ELSE 0

\* analyze_csv_new.py: the report section that raises, 0 if none
\* (5: float(max_spread_entry[27]), float(max_spread_entry[28]);
\*  7: total_no_reason/total_scans)
FailSectionNew ==
    IF max_spread_entry # <<>>
       /\ (Raises(max_spread_entry[1].eth) \/ Raises(max_spread_entry[1].gas))
    THEN 5
    ELSE IF reject_reasons = <<>> /\ total_scans = 0
    THEN 7
    ELSE 0

\* analyze_csv.py: the prints, sections 1 to 9
ReportOld ==
    /\ variant = "old"
    /\ pc = "report"
    /\ LET fail == FailSectionOld
       IN  /\ pc' = IF fail = 0 THEN "done" ELSE "error"
           /\ exc' = IF fail = 3 THEN "ValueError"
                     ELSE IF fail = 8 THEN "IndexError" ELSE exc
           /\ printed' = IF fail = 0 THEN 9 ELSE fail
           /\ counts' = IF Runs(7, fail) THEN Counts(spreads, spread_ranges) ELSE counts
           /\ sorted_time_spreads' =
                 IF fail = 8 \/ Runs(8, fail) THEN TopSpreads(time_spreads, TopKOld)
                 ELSE sorted_time_spreads
    /\ UNCHANGED <<variant, consumed, aggregates, total_scans, max_spread_val,
                   min_spread_val, median_spread, pat>>

\* analyze_csv_new.py: the prints, sections 1 to 11
ReportNew ==
    /\ variant = "new"
    /\ pc = "report"
    /\ LET fail == FailSectionNew
       IN  /\ pc' = IF fail = 0 THEN "done" ELSE "error"
           /\ exc' = IF fail = 5 THEN "ValueError"
                     ELSE IF fail = 7 THEN "ZeroDivisionError" ELSE exc
           /\ printed' = IF fail = 0 THEN 11 ELSE fail
           /\ counts' = IF Runs(8, fail) THEN Counts(spreads, spread_ranges) ELSE counts
           /\ sorted_time_spreads' =
                 IF Runs(9, fail) THEN TopSpreads(time_spreads, TopKNew)
                 ELSE sorted_time_spreads
    /\ UNCHANGED <<variant, consumed, aggregates, total_scans, max_spread_val,
                   min_spread_val, median_spread, pat>>

Next ==
    \/ SkipHeader
    \/ HeaderMissing
    \/ \E row \in Rows : ReadRowOld(row)
    \/ \E row \in Rows : ReadRowNew(row)
    \/ EndOfFile
    \/ StatisticsOld
    \/ StatisticsNew
    \/ ReportOld
    \/ ReportNew

Spec == Init /\ [][Next]_vars

(***************************************************************************)
(* The top-K list alone, over record lists longer than K: the records are  *)
(* appended as the read loops append them, record i carries timestamp i,   *)
(* and its spread follows the pattern pat.                                 *)
(***************************************************************************)
Patterns == [a : 0..3, b : 0..2, m : 1..4]

PatternSpread(p, i) == ((p.a * i + p.b) % p.m) * 10

TopInit ==
    /\ variant \in {"old", "new"}
    /\ pc = "topk"
    /\ pat \in Patterns
    /\ Fresh

\* time_spreads.append(...)
TopAppend ==
    /\ pc = "topk"
    /\ Len(time_spreads) < MaxTopLen
    /\ LET i == Len(time_spreads) + 1
           spread == PatternSpread(pat, i)
       IN  time_spreads' =
              Append(time_spreads,
                     IF variant = "old"
                     THEN TupleOld(Ts(i, TRUE), spread, "A", <<>>, 3000)
                     ELSE TupleNew(Ts(i, TRUE), spread, "A", <<>>, 3000, 2, 0))
    /\ UNCHANGED <<variant, pc, consumed, spreads, eth_prices, gas_prices, opportunities,
                   total_scans, reject_reasons, pair_spreads, max_spread_entry,
                   max_spread, high_spread_cases, results, exc, pat>>

\* analyze_csv.py: sorted(time_spreads, ...)[:10]
TopSortOld ==
    /\ variant = "old"
    /\ pc = "topk"
    /\ pc' = "topk_done"
    /\ sorted_time_spreads' = TopSpreads(time_spreads, TopKOld)
    /\ UNCHANGED <<variant, consumed, aggregates, total_scans, max_spread_val,
                   min_spread_val, median_spread, counts, printed, exc, pat>>

\* analyze_csv_new.py: sorted(time_spreads, ...)[:20]
TopSortNew ==
    /\ variant = "new"
    /\ pc = "topk"
    /\ pc' = "topk_done"
    /\ sorted_time_spreads' = TopSpreads(time_spreads, TopKNew)
    /\ UNCHANGED <<variant, consumed, aggregates, total_scans, max_spread_val,
                   min_spread_val, median_spread, counts, printed, exc, pat>>

TopNext ==
    \/ TopAppend
    \/ TopSortOld
    \/ TopSortNew

SpecTopK == TopInit /\ [][TopNext]_vars

(***************************************************************************)
(* Vocabulary of the properties, stated on the rows the reader produced.   *)
(***************************************************************************)
LastRow == consumed'[Len(consumed')]

RowRead == Len(consumed') = Len(consumed) + 1

LongEnough(row) == row.nfields >= MinFields

\* a conversion of the defensive variant fails on the row
ConversionFailsNew(row) ==
    \E f \in {row.scanNum, row.spread, row.hasOpp, row.eth, row.gas} : f.kind = "bad"

\* a required numeric field of the strict variant is missing or not a number
MalformedOld(row) ==
    /\ LongEnough(row)
    /\ \E f \in {row.spread, row.hasOpp, row.eth} : f.kind \in {"empty", "bad"}

IsRecord(row) ==
    /\ LongEnough(row)
    /\ IF variant = "old" THEN ~MalformedOld(row) ELSE ~ConversionFailsNew(row)

\* the rows that became records, in input order
Records == SelectSeq(consumed, IsRecord)

SpreadOf(row) == IF row.spread.kind = "num" THEN row.spread.val ELSE 0

FlagOf(row) == IF row.hasOpp.kind = "num" THEN row.hasOpp.val ELSE 0

ReadPassOver == pc = "stats"

StatsComputed == pc \in {"report", "done"} \/ printed > 0

Count(S) == Cardinality(S)

(***************************************************************************)
(* C1: defensive variant: a row of at least 29 fields on which a           *)
(* conversion fails does not increase total_scans, enters no aggregate,    *)
(* and the read loop goes on to the next row.                              *)
(***************************************************************************)
C1_MalformedRowLeavesNoTrace ==
    [][ (variant = "new" /\ RowRead /\ LongEnough(LastRow) /\ ConversionFailsNew(LastRow))
        => /\ total_scans' = total_scans
           /\ UNCHANGED aggregates
           /\ pc' = "reading" ]_vars

(***************************************************************************)
(* C2: defensive variant: whatever the file (zero lines, header only, only *)
(* short or malformed rows), the run raises no exception: it never ends in *)
(* an error, and at the end of the report over zero records all eleven     *)
(* sections are out and the statistics are 0 / empty.                      *)
(***************************************************************************)
C2_DefensiveRunNeverRaises ==
    variant = "new" =>
        /\ pc # "error"
        /\ exc = ""
        /\ (pc = "done" /\ spreads = <<>>) =>
              /\ printed = 11
              /\ max_spread_val = 0 /\ min_spread_val = 0 /\ median_spread = 0
              /\ sorted_time_spreads = <<>>
              /\ \A l \in DOMAIN counts : counts[l] = 0

(***************************************************************************)
(* C3: strict variant: once a row with a non-numeric or missing spread,    *)
(* opportunity flag or ETH price has been read, at whatever position, the  *)
(* run has ended with an error at that row and no report section is out.   *)
(***************************************************************************)
C3_StrictFailsFastWithoutOutput ==
    \A i \in DOMAIN consumed :
        (variant = "old" /\ MalformedOld(consumed[i]))
        => /\ i = Len(consumed)
           /\ pc = "error"
           /\ exc = "ValueError"
           /\ printed = 0

C3_Witness ==
    /\ variant = "old"
    /\ pc = "error"
    /\ Len(consumed) = 3
    /\ MalformedOld(consumed[3])
    /\ Len(time_spreads) = 2
    /\ printed = 0

(***************************************************************************)
(* C4: after the read pass over at least one record, max_spread_entry is   *)
(* the first record in input order whose spread equals the maximum spread  *)
(* over all records.                                                       *)
(***************************************************************************)
C4_MaxEntryIsFirstMaximum ==
    (ReadPassOver /\ Records # <<>>)
    => LET first == CHOOSE i \in DOMAIN Records :
                       /\ \A j \in DOMAIN Records : SpreadOf(Records[j]) <= SpreadOf(Records[i])
                       /\ \A j \in 1..(i - 1) : SpreadOf(Records[j]) < SpreadOf(Records[i])
       IN  max_spread_entry = <<Records[first]>>

(***************************************************************************)
(* C5: once the distribution is tallied, the count of each bucket is the   *)
(* number of spreads s with low <= s < high that no earlier bucket holds,  *)
(* and the counts add up to the number of spreads less the number of       *)
(* spreads outside [0, 999), so to the number of spreads when none is      *)
(* outside.                                                                *)
(***************************************************************************)
RECURSIVE SumCounts(_, _)
SumCounts(c, k) ==
    IF k = 0 THEN 0 ELSE c[spread_ranges[k].label] + SumCounts(c, k - 1)

Holds(k, s) == spread_ranges[k].low <= s /\ s < spread_ranges[k].high

Outside == {i \in DOMAIN spreads : spreads[i] < 0 \/ spreads[i] >= 99900}

C5_BucketCountsPartitionSpreads ==
    counts # <<>>
    => /\ \A k \in DOMAIN spread_ranges :
             counts[spread_ranges[k].label] =
                Count({i \in DOMAIN spreads :
                          /\ Holds(k, spreads[i])
                          /\ \A j \in 1..(k - 1) : ~Holds(j, spreads[i])})
       /\ SumCounts(counts, Len(spread_ranges)) = Len(spreads) - Count(Outside)
       /\ (Outside = {} => SumCounts(counts, Len(spread_ranges)) = Len(spreads))

C5_Witness ==
    /\ counts # <<>>
    /\ Len(spreads) = 3
    /\ Count(Outside) = 2
    /\ \E i \in DOMAIN spreads : spreads[i] = 17
    /\ SumCounts(counts, Len(spread_ranges)) = 1

(***************************************************************************)
(* C6: the reject_reasons table never has the empty string as a key; a     *)
(* record whose reason is empty or all whitespace leaves the table as it   *)
(* is, every other record adds exactly 1 to the count of its reason with   *)
(* the whitespace at both ends removed and changes no other count.         *)
(***************************************************************************)
AllWhitespace(s) == \A i \in DOMAIN s : s[i] \in Whitespace

\* t is s without the whitespace at its two ends
IsTrimOf(t, s) ==
    \E i \in 1..Len(s) : \E j \in i..Len(s) :
        /\ t = SubSeq(s, i, j)
        /\ s[i] \notin Whitespace
        /\ s[j] \notin Whitespace
        /\ \A k \in 1..(i - 1) : s[k] \in Whitespace
        /\ \A k \in (j + 1)..Len(s) : s[k] \in Whitespace

CountIn(d, key) == IF key \in DOMAIN d THEN d[key] ELSE 0

C6_RejectReasonsCountTrimmedNonEmpty ==
    [][ /\ <<>> \notin DOMAIN reject_reasons
        /\ <<>> \notin DOMAIN reject_reasons'
        /\ (Len(time_spreads') = Len(time_spreads) + 1 /\ RowRead)
           => IF AllWhitespace(LastRow.reason)
              THEN reject_reasons' = reject_reasons
              ELSE \E t \in DOMAIN reject_reasons' :
                      /\ IsTrimOf(t, LastRow.reason)
                      /\ reject_reasons'[t] = CountIn(reject_reasons, t) + 1
                      /\ DOMAIN reject_reasons' = DOMAIN reject_reasons \cup {t}
                      /\ \A u \in DOMAIN reject_reasons :
                            u # t => reject_reasons'[u] = reject_reasons[u] ]_vars

C6_Witness ==
    /\ Len(time_spreads) = 3
    /\ \E i \in DOMAIN consumed :
          consumed[i].reason # <<>> /\ AllWhitespace(consumed[i].reason)
    /\ DOMAIN reject_reasons = {<<"a">>}
    /\ reject_reasons[<<"a">>] = 2
    /\ \E i \in DOMAIN consumed : consumed[i].reason = <<" ", "a", " ">>

(***************************************************************************)
(* C7: over a non-empty list of n spreads the reported median is the       *)
(* element at index floor(n/2), counted from 0, of the list in ascending   *)
(* order: at most floor(n/2) spreads are smaller and more than floor(n/2)  *)
(* are not larger; it lies between the reported minimum and maximum.       *)
(***************************************************************************)
C7_MedianIsUpperMiddle ==
    (StatsComputed /\ spreads # <<>>)
    => LET n == Len(spreads)
           smaller == {i \in DOMAIN spreads : spreads[i] < median_spread}
           notLarger == {i \in DOMAIN spreads : spreads[i] <= median_spread}
       IN  /\ \E i \in DOMAIN spreads : spreads[i] = median_spread
           /\ Count(smaller) <= n \div 2
           /\ Count(notLarger) > n \div 2
           /\ min_spread_val <= median_spread
           /\ median_spread <= max_spread_val

C7_Witness ==
    /\ StatsComputed
    /\ Len(spreads) = 2
    /\ spreads[1] > spreads[2]
    /\ median_spread = spreads[1]

(***************************************************************************)
(* C8: the top-K list (K = 10 in analyze_csv.py, 20 in analyze_csv_new.py) *)
(* has min(K, N) records; the record of input position i stands at the     *)
(* place given by the number of records with a larger spread plus the      *)
(* number of earlier records with the same spread, when that is below K;   *)
(* so spreads never increase along the list and equal spreads keep their   *)
(* input order.                                                            *)
(***************************************************************************)
TopK == IF variant = "old" THEN TopKOld ELSE TopKNew

Ahead(i) ==
    {j \in DOMAIN time_spreads :
        \/ time_spreads[j].spread > time_spreads[i].spread
        \/ (time_spreads[j].spread = time_spreads[i].spread /\ j < i)}

C8_TopKIsStableDescendingPrefix ==
    pc = "topk_done"
    => /\ Len(sorted_time_spreads) =
             (IF Len(time_spreads) < TopK THEN Len(time_spreads) ELSE TopK)
       /\ \A i \in DOMAIN time_spreads :
             Count(Ahead(i)) < TopK
             => sorted_time_spreads[Count(Ahead(i)) + 1] = time_spreads[i]
       /\ \A p \in DOMAIN sorted_time_spreads : \A q \in DOMAIN sorted_time_spreads :
             p < q => /\ sorted_time_spreads[p].spread >= sorted_time_spreads[q].spread
                      /\ (sorted_time_spreads[p].spread = sorted_time_spreads[q].spread
                          => sorted_time_spreads[p].timestamp.t
                                < sorted_time_spreads[q].timestamp.t)

C8_Witness ==
    /\ pc = "topk_done"
    /\ variant = "new"
    /\ Len(time_spreads) = 22
    /\ Len(sorted_time_spreads) = 20
    /\ sorted_time_spreads[19].spread = sorted_time_spreads[20].spread
    /\ sorted_time_spreads[1].spread > sorted_time_spreads[20].spread
    /\ \E i \in DOMAIN time_spreads :
          /\ time_spreads[i].spread = sorted_time_spreads[20].spread
          /\ time_spreads[i].timestamp.t > sorted_time_spreads[20].timestamp.t

(***************************************************************************)
(* C9: defensive variant: after any prefix of the input, high_spread_cases *)
(* holds, in input order, exactly the records with spread >= 0.17 and      *)
(* flag 0, and opportunities is the number of records with flag 1; a       *)
(* record whose flag is neither 0 nor 1 is in neither.                     *)
(***************************************************************************)
AnomalyRow(row) == SpreadOf(row) >= MinSpreadPercent /\ FlagOf(row) = 0

Anomalies == SelectSeq(Records, AnomalyRow)

C9_AnomaliesArePerRecord ==
    variant = "new"
    => /\ Len(high_spread_cases) = Len(Anomalies)
       /\ \A i \in DOMAIN Anomalies :
             /\ high_spread_cases[i].timestamp = Anomalies[i].ts
             /\ high_spread_cases[i].pair = Anomalies[i].pair
             /\ high_spread_cases[i].spread = SpreadOf(Anomalies[i])
             /\ high_spread_cases[i].eth_price = Anomalies[i].eth.val
             /\ high_spread_cases[i].gas_gwei = Anomalies[i].gas.val
       /\ opportunities = Count({i \in DOMAIN Records : FlagOf(Records[i]) = 1})
       /\ \A i \in DOMAIN Records :
             FlagOf(Records[i]) \notin {0, 1}
             => \A k \in DOMAIN high_spread_cases :
                   high_spread_cases[k].timestamp # Records[i].ts

C9_Witness ==
    /\ variant = "new"
    /\ pc = "stats"
    /\ Len(Records) = 3
    /\ SpreadOf(Records[1]) = 50 /\ FlagOf(Records[1]) = 0
    /\ SpreadOf(Records[2]) = 17 /\ FlagOf(Records[2]) = 2
    /\ SpreadOf(Records[3]) = 17 /\ FlagOf(Records[3]) = 0
    /\ Len(high_spread_cases) = 2
    /\ high_spread_cases[2].spread = 17
    /\ opportunities = 0

(***************************************************************************)
(* C10: defensive variant: in every step spreads, eth_prices, gas_prices   *)
(* and time_spreads have one length, which is the sum of the lengths of    *)
(* the per-pair lists, with opportunities <= that length <= total_scans;   *)
(* a step adds one element to all of these lists or to none, and no list   *)
(* or counter shrinks.                                                     *)
(***************************************************************************)
RECURSIVE SumLen(_, _)
SumLen(d, keys) ==
    IF keys = {} THEN 0
    ELSE LET k == CHOOSE x \in keys : TRUE
         IN  Len(d[k]) + SumLen(d, keys \ {k})

Aligned(sp, ep, gp, ts, ps, opp, total) ==
    /\ Len(ep) = Len(sp)
    /\ Len(gp) = Len(sp)
    /\ Len(ts) = Len(sp)
    /\ SumLen(ps, DOMAIN ps) = Len(sp)
    /\ opp <= Len(sp)
    /\ Len(sp) <= total

Extends(old, new) == Len(new) >= Len(old) /\ SubSeq(new, 1, Len(old)) = old

C10_AggregatesGrowTogether ==
    [][ variant = "new"
        => /\ Aligned(spreads, eth_prices, gas_prices, time_spreads, pair_spreads,
                      opportunities, total_scans)
           /\ Aligned(spreads', eth_prices', gas_prices', time_spreads', pair_spreads',
                      opportunities', total_scans')
           /\ Len(spreads') \in {Len(spreads), Len(spreads) + 1}
           /\ Extends(spreads, spreads')
           /\ Extends(eth_prices, eth_prices')
           /\ Extends(gas_prices, gas_prices')
           /\ Extends(time_spreads, time_spreads')
           /\ Extends(high_spread_cases, high_spread_cases')
           /\ DOMAIN pair_spreads \subseteq DOMAIN pair_spreads'
           /\ \A k \in DOMAIN pair_spreads : Extends(pair_spreads[k], pair_spreads'[k])
           /\ DOMAIN reject_reasons \subseteq DOMAIN reject_reasons'
           /\ \A k \in DOMAIN reject_reasons : reject_reasons[k] <= reject_reasons'[k]
           /\ opportunities <= opportunities'
           /\ total_scans <= total_scans' ]_vars

C10_Witness ==
    /\ variant = "new"
    /\ total_scans = 3
    /\ Len(spreads) = 2
    /\ opportunities = 1
    /\ DOMAIN pair_spreads = {"A", "B"}
    /\ \E i \in DOMAIN consumed : ConversionFailsNew(consumed[i])

====
